---- MODULE Spec2Model ----
(***************************************************************************)
(* Model of src/mcp/mcp_server.py: the DocumentMCP server.  A module-level *)
(* dict `docs` (document id -> content) is served through two tools        *)
(* (read_doc, edit_doc), two resources (docs://documents and               *)
(* docs://documents/{doc_id}) and one prompt (format).                     *)
(*                                                                         *)
(* Python strings are modelled as sequences of tokens, so that f-string    *)
(* interpolation is concatenation and substring containment is a real      *)
(* search.  Literals are cut at the quotes and after "edit_doc", so that   *)
(* every substring the properties look for is a run of whole tokens.  The  *)
(* dict is modelled as the sequence of its items in insertion order, which *)
(* is the order Python's dict iterates in.                                 *)
(***************************************************************************)
EXTENDS Naturals, Sequences, FiniteSets

VARIABLES docs, call, ret, written

vars == <<docs, call, ret, written>>

(* ------------------------------ bounds -------------------------------- *)

\* longest new_content (in tokens) a caller passes to edit_doc
MaxLen == 1

(* ------------------------------ inputs -------------------------------- *)

Alphabet == {"#"}

RECURSIVE StringsUpTo(_)
StringsUpTo(n) ==
    IF n = 0 THEN {<<>>}
    ELSE LET shorter == StringsUpTo(n - 1)
         IN  shorter \cup {Append(s, c) : s \in shorter, c \in Alphabet}

NewContents == StringsUpTo(MaxLen)

(* --------------------------- python values ---------------------------- *)

\* a function call that returned `value`, a Python object of type `type`
Return(type, value) == [kind |-> "return", type |-> type, value |-> value]

\* a function call that raised exception class `exc` with message `msg`
Raise(exc, msg) == [kind |-> "raise", type |-> exc, value |-> msg]

None == Return("NoneType", <<>>)

\* `sub in text` for Python strings
Contains(text, sub) ==
    \E i \in 1..(Len(text) + 1) :
        /\ i + Len(sub) - 1 <= Len(text)
        /\ SubSeq(text, i, i + Len(sub) - 1) = sub

(* ---------------------------- python dict ----------------------------- *)

\* `k in d`
dict_contains(d, k) == \E i \in 1..Len(d) : d[i].key = k

\* d.get(k, default)
dict_get(d, k, default) ==
    IF dict_contains(d, k)
    THEN d[CHOOSE i \in 1..Len(d) : d[i].key = k].value
    ELSE default

\* d[k] = v : replaces the value in place, or appends a new item
dict_setitem(d, k, v) ==
    IF dict_contains(d, k)
    THEN [i \in 1..Len(d) |-> IF d[i].key = k THEN [key |-> k, value |-> v] ELSE d[i]]
    ELSE Append(d, [key |-> k, value |-> v])

\* list(d.keys())
dict_keys(d) == [i \in 1..Len(d) |-> d[i].key]

(* ------------------------- module-level state ------------------------- *)

\* the dict literal bound to `docs` at import
docs_literal ==
    << [key |-> <<"deposition.md">>,
        value |-> <<"This deposition covers the testimony of Angela Smith, P.E.">>],
       [key |-> <<"report.pdf">>,
        value |-> <<"The report details the state of a 20m condenser tower.">>],
       [key |-> <<"financials.docx">>,
        value |-> <<"These financials outline the project's budget and expenditures.">>],
       [key |-> <<"outlook.pdf">>,
        value |-> <<"This document presents the projected future performance of the system.">>],
       [key |-> <<"plan.md">>,
        value |-> <<"The plan outlines the steps for the project's implementation.">>],
       [key |-> <<"spec.txt">>,
        value |-> <<"These specifications define the technical requirements for the equipment.">>] >>

\* names passed to the @mcp.tool decorators
tool_names == {<<"read_doc">>, <<"edit_doc">>}

\* name passed to the @mcp.prompt decorator
prompt_names == {<<"format">>}

\* URIs passed to the @mcp.resource decorators
resource_uris == {<<"docs://documents">>, <<"docs://documents/{doc_id}">>}

SeedIds == dict_keys(docs_literal)

UnknownIds == {<<"nope">>, <<>>}

DocIds == {SeedIds[i] : i \in 1..Len(SeedIds)} \cup UnknownIds

(* ----------------------------- handlers ------------------------------- *)

NotFoundMessage(doc_id) == <<"Document with ID ", "'">> \o doc_id \o <<"'", " not found.">>

\* read_document written with a default instead of the existence check
read_document_default(d, doc_id) ==
    Return("str", dict_get(d, doc_id, <<"Document not found.">>))

\* read_document returning the key it looked up instead of the value
read_document_returns_id(d, doc_id) ==
    IF ~dict_contains(d, doc_id)
    THEN Raise("ValueError", NotFoundMessage(doc_id))
    ELSE Return("str", doc_id)

\* tool read_doc; docs.get(doc_id) defaults to None, unreachable after the check
read_document(d, doc_id) ==
    IF ~dict_contains(d, doc_id)
    THEN Raise("ValueError", NotFoundMessage(doc_id))
    ELSE Return("str", dict_get(d, doc_id, <<>>))

\* edit_document that builds the new content but never stores it
edit_document_no_store(d, doc_id, new_content) ==
    IF ~dict_contains(d, doc_id)
    THEN [docs |-> d, ret |-> Raise("ValueError", NotFoundMessage(doc_id))]
    ELSE [docs |-> d, ret |-> None]

\* edit_document without the existence check: the assignment inserts
edit_document_upsert(d, doc_id, new_content) ==
    [docs |-> dict_setitem(d, doc_id, new_content), ret |-> None]

\* edit_document that rebinds the whole dict to the one edited item
edit_document_rebind(d, doc_id, new_content) ==
    IF ~dict_contains(d, doc_id)
    THEN [docs |-> d, ret |-> Raise("ValueError", NotFoundMessage(doc_id))]
    ELSE [docs |-> <<[key |-> doc_id, value |-> new_content]>>, ret |-> None]

\* tool edit_doc: the new dict and the outcome of the call
edit_document(d, doc_id, new_content) ==
    IF ~dict_contains(d, doc_id)
    THEN [docs |-> d, ret |-> Raise("ValueError", NotFoundMessage(doc_id))]
    ELSE [docs |-> dict_setitem(d, doc_id, new_content), ret |-> None]

\* list_docs returning the ids in reverse order
list_docs_reversed(d) ==
    Return("list", [i \in 1..Len(d) |-> d[Len(d) + 1 - i].key])

\* resource docs://documents
list_docs(d) == Return("list", dict_keys(d))

\* get_doc_content written with a default instead of the existence check
get_doc_content_default(d, doc_id) ==
    Return("str", dict_get(d, doc_id, <<"Document not found.">>))

\* resource docs://documents/{doc_id}
get_doc_content(d, doc_id) ==
    IF ~dict_contains(d, doc_id)
    THEN Raise("ValueError", NotFoundMessage(doc_id))
    ELSE Return("str", dict_get(d, doc_id, <<>>))

UserMessage(content) == [role |-> "user", content |-> content]

\* the prompt written as a plain string: the placeholder is not interpolated
prompt_template_plain(doc_id) ==
    <<"\n    Your goal is to reformat a document to be written with markdown syntax.\n\n    The id of the document you need to reformat is:\n    <document_id>\n    ",
      "{doc_id}",
      "\n    </document_id>\n\n    Add in headers, bullet points, tables, etc as necessary. Feel free to add in structure.\n    Use the ",
      "'", "edit_doc", "ument", "'",
      " tool to edit the document. After the document has been reformatted...\n    ">>

\* the f-string of the format prompt
prompt_template(doc_id) ==
    <<"\n    Your goal is to reformat a document to be written with markdown syntax.\n\n    The id of the document you need to reformat is:\n    <document_id>\n    ">>
    \o doc_id
    \o <<"\n    </document_id>\n\n    Add in headers, bullet points, tables, etc as necessary. Feel free to add in structure.\n    Use the ",
         "'", "edit_doc", "ument", "'",
         " tool to edit the document. After the document has been reformatted...\n    ">>

\* prompt format
format_document(doc_id) == Return("list", <<UserMessage(prompt_template(doc_id))>>)

(* --------------------------- state machine ---------------------------- *)

NoCall == [op |-> "import", doc_id |-> <<>>, new_content |-> <<>>]

Call(op, doc_id, new_content) == [op |-> op, doc_id |-> doc_id, new_content |-> new_content]

NotWritten == [done |-> FALSE, content |-> <<>>]

Init ==
    /\ docs = docs_literal
    /\ call = NoCall
    /\ ret = None
    /\ written = [id \in DocIds |-> NotWritten]

ReadDoc ==
    \E doc_id \in DocIds :
        /\ call' = Call("read_doc", doc_id, <<>>)
        /\ ret' = read_document(docs, doc_id)
        /\ UNCHANGED <<docs, written>>

EditDoc ==
    \E doc_id \in DocIds, new_content \in NewContents :
        LET r == edit_document(docs, doc_id, new_content)
        IN  /\ call' = Call("edit_doc", doc_id, new_content)
            /\ docs' = r.docs
            /\ ret' = r.ret
            /\ written' = IF r.ret.kind = "return"
                          THEN [written EXCEPT ![doc_id] = [done |-> TRUE, content |-> new_content]]
                          ELSE written

ListDocs ==
    /\ call' = Call("list_docs", <<>>, <<>>)
    /\ ret' = list_docs(docs)
    /\ UNCHANGED <<docs, written>>

GetDocContent ==
    \E doc_id \in DocIds :
        /\ call' = Call("get_doc_content", doc_id, <<>>)
        /\ ret' = get_doc_content(docs, doc_id)
        /\ UNCHANGED <<docs, written>>

FormatDocument ==
    \E doc_id \in DocIds :
        /\ call' = Call("format", doc_id, <<>>)
        /\ ret' = format_document(doc_id)
        /\ UNCHANGED <<docs, written>>

Next ==
    \/ ReadDoc
    \/ EditDoc
    \/ ListDocs
    \/ GetDocContent
    \/ FormatDocument

Spec == Init /\ [][Next]_vars

(* ------------------------------ claims -------------------------------- *)

\* the value stored under an existing key
StoredContent(d, k) == d[CHOOSE i \in 1..Len(d) : d[i].key = k].value

\* C1: once edit_doc(id, X) has succeeded, read_doc(id) returns exactly X,
\* the content of the most recent successful edit of that id, in every
\* reachable state; a read_doc call that was made returned that value.
C1_EditThenRead ==
    /\ \A id \in DocIds :
          written[id].done => read_document(docs, id) = Return("str", written[id].content)
    /\ (call.op = "read_doc" /\ written[call.doc_id].done)
          => ret = Return("str", written[call.doc_id].content)

C1_Witness ==
    /\ call.op = "read_doc"
    /\ written[call.doc_id].done
    /\ ret.kind = "return"
    /\ ret.value = written[call.doc_id].content
    /\ ret.value # dict_get(docs_literal, call.doc_id, <<>>)

\* C2: edit_doc with a doc_id that is not a key raises the not-found
\* ValueError and leaves the dict as it was: same items, same order, and
\* doc_id is not inserted.
C2_EditUnknownFails ==
    [][(call'.op = "edit_doc" /\ ~dict_contains(docs, call'.doc_id))
          => /\ ret' = Raise("ValueError", NotFoundMessage(call'.doc_id))
             /\ docs' = docs
             /\ ~dict_contains(docs', call'.doc_id)]_vars

C2_Witness ==
    /\ call.op = "edit_doc"
    /\ call.doc_id = <<"nope">>
    /\ ret.kind = "raise"
    /\ ret.type = "ValueError"
    /\ docs # docs_literal
    /\ ~dict_contains(docs, <<"nope">>)

\* C3: in every reachable state list_docs returns (never raises) exactly
\* the six seeded ids in seed order, and every list_docs call made returned
\* that list.
C3_ListIsSeedIds ==
    LET six == << <<"deposition.md">>, <<"report.pdf">>, <<"financials.docx">>,
                  <<"outlook.pdf">>, <<"plan.md">>, <<"spec.txt">> >>
    IN  /\ list_docs(docs) = Return("list", six)
        /\ call.op = "list_docs" => ret = Return("list", six)

C3_Witness ==
    /\ call.op = "list_docs"
    /\ ret.kind = "return"
    /\ Len(ret.value) = 6
    /\ \A i \in 1..Len(docs) : written[docs[i].key].done
    /\ \A i \in 1..Len(docs) : docs[i].value # docs_literal[i].value

\* C4: as long as no edit_doc has succeeded, read_doc(id) returns exactly
\* the seeded content of each of the six seeded ids.
C4_SeedContentRead ==
    (\A id \in DocIds : ~written[id].done)
        => /\ \A i \in 1..Len(docs_literal) :
                 read_document(docs, docs_literal[i].key)
                     = Return("str", docs_literal[i].value)
           /\ (call.op = "read_doc" /\ dict_contains(docs_literal, call.doc_id))
                 => ret = Return("str", StoredContent(docs_literal, call.doc_id))

C4_Witness ==
    /\ \A id \in DocIds : ~written[id].done
    /\ call.op = "read_doc"
    /\ call.doc_id = <<"plan.md">>
    /\ ret = Return("str", <<"The plan outlines the steps for the project's implementation.">>)

\* C5: a read_doc call raises the not-found ValueError if and only if
\* doc_id is not a key; otherwise it returns the stored string, never a
\* default; either way the dict is left unchanged.
C5_ReadNotFoundIff ==
    [][call'.op = "read_doc"
          => /\ docs' = docs
             /\ (ret'.kind = "raise") <=> ~dict_contains(docs, call'.doc_id)
             /\ ret'.kind = "raise"
                   => ret' = Raise("ValueError", NotFoundMessage(call'.doc_id))
             /\ ret'.kind = "return"
                   => ret' = Return("str", StoredContent(docs, call'.doc_id))]_vars

C5_Witness ==
    /\ call.op = "read_doc"
    /\ call.doc_id \in UnknownIds
    /\ ret.kind = "raise"
    /\ ret.type = "ValueError"
    /\ docs # docs_literal

\* C6: format(doc_id) makes no existence check: for every doc_id, key or
\* not, it returns a list of exactly one message whose text contains doc_id
\* and the literal edit_document.
C6_FormatAlwaysSucceeds ==
    /\ \A id \in DocIds :
          LET r == format_document(id)
          IN  /\ r.kind = "return"
              /\ Len(r.value) = 1
              /\ Contains(r.value[1].content, id)
              /\ Contains(r.value[1].content, <<"edit_doc", "ument">>)
    /\ call.op = "format"
          => /\ ret.kind = "return"
             /\ Len(ret.value) = 1
             /\ Contains(ret.value[1].content, call.doc_id)
             /\ Contains(ret.value[1].content, <<"edit_doc", "ument">>)

C6_Witness ==
    /\ call.op = "format"
    /\ call.doc_id = <<"nope">>
    /\ ~dict_contains(docs, call.doc_id)
    /\ ret.kind = "return"
    /\ Len(ret.value) = 1
    /\ Contains(ret.value[1].content, <<"nope">>)

\* C7: the tool name the format prompt quotes is a name under which a tool
\* is registered with the server.
C7_PromptQuotesRegisteredTool ==
    call.op = "format"
        => \E t \in tool_names :
              Contains(ret.value[1].content, <<"'">> \o t \o <<"'">>)

\* C8: in every reachable state and for every doc_id the templated
\* resource gives the outcome read_doc gives: the stored content for a
\* key, the not-found ValueError otherwise.
C8_ResourceMatchesRead ==
    /\ \A id \in DocIds : get_doc_content(docs, id) = read_document(docs, id)
    /\ call.op = "get_doc_content" => ret = read_document(docs, call.doc_id)

C8_Witness ==
    /\ \E id \in DocIds :
          /\ call = Call("get_doc_content", id, <<>>)
          /\ written[id].done
          /\ ret = Return("str", written[id].content)
    /\ \E id \in UnknownIds : get_doc_content(docs, id).kind = "raise"

\* C9: a successful edit_doc returns a string.
C9_EditReturnsString ==
    (call.op = "edit_doc" /\ ret.kind = "return") => ret.type = "str"

\* C10: a successful edit_doc(id, X) changes the content of id to X and
\* nothing else; every other call, and a failing edit_doc, leaves the whole
\* dict unchanged.
C10_OnlyEditWrites ==
    [][IF call'.op = "edit_doc" /\ ret'.kind = "return"
       THEN /\ Len(docs') = Len(docs)
            /\ \A i \in 1..Len(docs) :
                  /\ docs'[i].key = docs[i].key
                  /\ docs'[i].value = IF docs[i].key = call'.doc_id
                                      THEN call'.new_content
                                      ELSE docs[i].value
       ELSE docs' = docs]_vars

C10_Witness ==
    /\ call.op = "edit_doc"
    /\ ret.kind = "return"
    /\ \E i, j \in 1..Len(docs) :
          /\ docs[i].key = call.doc_id
          /\ docs[i].value = call.new_content
          /\ docs[j].key # call.doc_id
          /\ docs[j].value = docs_literal[j].value
    /\ \E k \in 1..Len(docs) :
          /\ docs[k].key # call.doc_id
          /\ written[docs[k].key].done
          /\ docs[k].value # call.new_content
====
